---- MODULE Spec2Model ----
(***************************************************************************)
(* Model of skills/the-market-ear/themarketear_news.py: the record         *)
(* extractor, the cursor extractor and the pagination driver run().        *)
(*                                                                         *)
(* An HTML document is a sequence of lexical items (opening article tag,   *)
(* closing article tag, ld+json script element, h1/h2/h3/p element, an     *)
(* element carrying data-post-id, a quoted "postId" JSON field).  The      *)
(* regular expressions of the source are computed over these items.        *)
(* A text is a sequence of characters, entities and inline tags.           *)
(***************************************************************************)
EXTENDS Integers, Sequences, FiniteSets, TLC

VARIABLES pc, argv, token, pages, html_text, records, last_post_id, page,
          stdout, stderr, fetches, status

vars == <<pc, argv, token, pages, html_text, records, last_post_id, page,
          stdout, stderr, fetches, status>>

(***************************** bounds **************************************)
MaxPages == 3
MaxArticles == 3
MaxTokens == 3
MaxTextLen == 1

(***************************** constants ***********************************)
DefaultPages == 5

\* Python's None (os.environ.get, Optional[str] cursor, re.search miss).
None == "<None>"
\* An attribute that is not written on a tag at all.
NoAttr == "<no-attr>"

(***************************** texts ***************************************)
\* Characters "a", "b"; whitespace " "; the entity "&#32;" (a space once
\* unescaped); the inline tag "<i>".
TextTok == {"a", "b", " ", "&#32;", "<i>"}

IsWhitespace(c) == c = " "

IsTagTok(c) == c = "<i>"

RECURSIVE lstrip(_)
lstrip(s) == IF s # <<>> /\ IsWhitespace(Head(s)) THEN lstrip(Tail(s)) ELSE s

RECURSIVE rstrip(_)
rstrip(s) ==
  IF s # <<>> /\ IsWhitespace(s[Len(s)]) THEN rstrip(SubSeq(s, 1, Len(s) - 1)) ELSE s

\* str.strip()
strip(s) == rstrip(lstrip(s))

\* html.unescape
html_unescape(value) ==
  [i \in 1..Len(value) |-> IF value[i] = "&#32;" THEN " " ELSE value[i]]

unescape_text(value) == strip(html_unescape(value))

strip_tags(value) == strip(SelectSeq(value, LAMBDA c : ~IsTagTok(c)))

(***************************** JSON values *********************************)
\* What payload.get(key) returns: None (key missing or null), a str, a number.
JAbsent == [ty |-> "absent", s |-> <<>>, n |-> 0]

JStr(t) == [ty |-> "str", s |-> t, n |-> 0]

JNum(k) == [ty |-> "num", s |-> <<>>, n |-> k]

\* Python truthiness.
Truthy(v) ==
  CASE v.ty = "absent" -> FALSE
    [] v.ty = "str" -> v.s # <<>>
    [] v.ty = "num" -> v.n # 0

\* Python's  a or b.
py_or(a, b) == IF Truthy(a) THEN a ELSE b

isinstance_str(v) == v.ty = "str"

\* str(v) of a truthy value.
py_str(v) == IF v.ty = "str" THEN v.s ELSE <<ToString(v.n)>>

\* json.loads of the script body: a JSONDecodeError (payload = None), a value
\* that is not a dict, or a dict.
Malformed == [kind |-> "malformed", headline |-> JAbsent, name |-> JAbsent,
              description |-> JAbsent]

NotDict == [kind |-> "array", headline |-> JAbsent, name |-> JAbsent,
            description |-> JAbsent]

Dict(h, n, d) == [kind |-> "object", headline |-> h, name |-> n, description |-> d]

(***************************** lexical items *******************************)
Item(tag, id, dpi, postId, text, ld) ==
  [tag |-> tag, id |-> id, dpi |-> dpi, postId |-> postId, text |-> text, ld |-> ld]

\* <article id=".." data-post-id="..">
ArticleOpen(id, dpi) == Item("article", id, dpi, NoAttr, <<>>, Malformed)

\* </article>
ArticleClose == Item("/article", NoAttr, NoAttr, NoAttr, <<>>, Malformed)

\* <script type="application/ld+json">payload</script>
Script(ld) == Item("script", NoAttr, NoAttr, NoAttr, <<>>, ld)

\* <h1>text</h1>, <h2>text</h2>, <h3>text</h3>, <p>text</p>
Elem(tag, text) == Item(tag, NoAttr, NoAttr, NoAttr, text, Malformed)

\* <div data-post-id="..">
Div(dpi) == Item("div", NoAttr, dpi, NoAttr, <<>>, Malformed)

\* "postId": ".."
PostIdField(v) == Item("json", NoAttr, NoAttr, v, <<>>, Malformed)

\* the group ([^"]+) matches the attribute value
Matches(v) == v # NoAttr /\ v # ""

Min(S) == CHOOSE x \in S : \A y \in S : x <= y

Max(S) == CHOOSE x \in S : \A y \in S : x >= y

\* re.search(r"<tag[^>]*>(.*?)</tag>", article): the first such element, or None
search(article, tag) ==
  LET hits == {i \in 1..Len(article) : article[i].tag = tag}
  IN  IF hits = {} THEN <<>> ELSE <<article[Min(hits)]>>

\* re.findall(r"<article[^>]*>.*?</article>", html_text): from an opening tag to
\* the first closing tag after it, then on from there.
RECURSIVE findall_articles(_)
findall_articles(html) ==
  LET opens == {i \in 1..Len(html) : html[i].tag = "article"}
  IN  IF opens = {} THEN <<>>
      ELSE LET o == Min(opens)
               closes == {j \in (o + 1)..Len(html) : html[j].tag = "/article"}
           IN  IF closes = {} THEN <<>>
               ELSE LET c == Min(closes)
                    IN  <<SubSeq(html, o, c)>>
                          \o findall_articles(SubSeq(html, c + 1, Len(html)))

Record(t, d) == [title |-> t, description |-> d]

\* lines 79-101: the record of the ld+json script, <<>> when the code falls
\* through to the markup.
json_ld_record(article) ==
  LET json_ld_match == search(article, "script")
  IN  IF json_ld_match = <<>> THEN <<>>
      ELSE LET payload == json_ld_match[1].ld
           IN  IF payload.kind # "object" THEN <<>>
               ELSE LET title == py_or(py_or(payload.headline, payload.name), JStr(<<>>))
                        description == py_or(payload.description, JStr(<<>>))
                    IN  IF ~(isinstance_str(title) \/ isinstance_str(description))
                        THEN <<>>
                        ELSE LET title_text ==
                                   IF Truthy(title) THEN unescape_text(py_str(title))
                                   ELSE <<>>
                                 desc_text ==
                                   IF Truthy(description)
                                   THEN unescape_text(py_str(description))
                                   ELSE <<>>
                             IN  IF title_text # <<>> \/ desc_text # <<>>
                                 THEN <<Record(title_text, desc_text)>>
                                 ELSE <<>>

\* lines 103-115
markup_record(article) ==
  LET h1 == search(article, "h1")
      h2 == search(article, "h2")
      h3 == search(article, "h3")
      title_match == IF h1 # <<>> THEN h1 ELSE IF h2 # <<>> THEN h2 ELSE h3
      desc_match == search(article, "p")
      title == IF title_match # <<>> THEN strip_tags(title_match[1].text) ELSE <<>>
      description == IF desc_match # <<>> THEN strip_tags(desc_match[1].text) ELSE <<>>
  IN  IF title # <<>> \/ description # <<>>
      THEN <<Record(unescape_text(title), unescape_text(description))>>
      ELSE <<>>

MarkupFirst(article) ==
  IF markup_record(article) # <<>> THEN markup_record(article)
  ELSE json_ld_record(article)

\* the body of the for loop, lines 78-115
article_records(article) ==
  IF json_ld_record(article) # <<>> THEN json_ld_record(article)
  ELSE markup_record(article)

RECURSIVE FlatMapArticles(_)
FlatMapArticles(articles) ==
  IF articles = <<>> THEN <<>>
  ELSE article_records(Head(articles)) \o FlatMapArticles(Tail(articles))

extract_records_from_html(html) == FlatMapArticles(findall_articles(html))

find_article_records(html) == extract_records_from_html(html)

RECURSIVE DedupeFrom(_, _)
DedupeFrom(recs, seen) ==
  IF recs = <<>> THEN <<>>
  ELSE LET key == <<Head(recs).title, Head(recs).description>>
       IN  IF key \in seen THEN DedupeFrom(Tail(recs), seen)
           ELSE <<Head(recs)>> \o DedupeFrom(Tail(recs), seen \cup {key})

RECURSIVE DedupeByTitle(_, _)
DedupeByTitle(recs, seen) ==
  IF recs = <<>> THEN <<>>
  ELSE LET key == Head(recs).title
       IN  IF key \in seen THEN DedupeByTitle(Tail(recs), seen)
           ELSE <<Head(recs)>> \o DedupeByTitle(Tail(recs), seen \cup {key})

DedupeTitleOnly(recs) == DedupeByTitle(recs, {})

dedupe_records(recs) == DedupeFrom(recs, {})

\* records = dedupe_records(find_article_records(html_text)), lines 174, 183, 204
extractRecords(html) == dedupe_records(find_article_records(html))

(***************************** inputs of the extractor *********************)
RECURSIVE SeqsUpTo(_, _)
SeqsUpTo(S, n) ==
  IF n = 0 THEN {<<>>}
  ELSE LET shorter == SeqsUpTo(S, n - 1)
       IN  shorter \cup {Append(s, x) : s \in {t \in shorter : Len(t) = n - 1}, x \in S}

Texts == SeqsUpTo(TextTok, MaxTextLen)

JValues == {JAbsent} \cup {JStr(t) : t \in Texts} \cup {JNum(0), JNum(5)}

Payloads == {Malformed, NotDict}
              \cup {Dict(h, n, d) : h \in JValues, n \in JValues, d \in JValues}

Plain == ArticleOpen(NoAttr, NoAttr)

Markups ==
  { <<>>,
    <<Elem("h1", <<"b">>)>>,
    <<Elem("h2", <<"a">>), Elem("p", <<"b">>)>>,
    <<Elem("h3", <<"&#32;">>)>>,
    <<Elem("h3", <<"a">>), Elem("p", <<"<i>", "b">>), Elem("h1", <<"b", " ">>)>> }

\* one article with a structured-data script and markup
ScriptDocs == {<<Plain, Script(p)>> \o m \o <<ArticleClose>> : p \in Payloads, m \in Markups}

\* one article with a heading and a paragraph
MarkupDocs ==
  {<<Plain, Elem(h, t), Elem("p", d), ArticleClose>> :
     h \in {"h1", "h2", "h3"}, t \in Texts, d \in Texts}

SampleArticles ==
  { <<Plain, Elem("h1", <<"a">>), ArticleClose>>,
    <<Plain, Elem("h2", <<" ", "a">>), ArticleClose>>,
    <<Plain, Elem("h1", <<"a">>), Elem("p", <<"b">>), ArticleClose>>,
    <<Plain, Script(Dict(JStr(<<"a">>), JAbsent, JStr(<<"b">>))), Elem("h1", <<"b">>),
      ArticleClose>>,
    <<Plain, Elem("h3", <<"b">>), ArticleClose>>,
    <<Plain, Elem("h1", <<"&#32;">>), ArticleClose>>,
    <<Plain, Elem("h1", <<"b">>)>>,
    <<Plain, ArticleClose>> }

RECURSIVE Concat(_)
Concat(ss) == IF ss = <<>> THEN <<>> ELSE Head(ss) \o Concat(Tail(ss))

MultiDocs == {Concat(ss) : ss \in SeqsUpTo(SampleArticles, MaxArticles)}

ExtractDocs == ScriptDocs \cup MarkupDocs \cup MultiDocs

(***************************** the extractor alone *************************)
InitExtract ==
  /\ pc = "extract"
  /\ html_text \in ExtractDocs
  /\ records = <<>>
  /\ argv = <<>> /\ token = None /\ pages = 0 /\ last_post_id = None /\ page = 0
  /\ stdout = <<>> /\ stderr = <<>> /\ fetches = <<>> /\ status = -1

ExtractRecords ==
  /\ pc = "extract"
  /\ records' = extractRecords(html_text)
  /\ pc' = "extracted"
  /\ UNCHANGED <<argv, token, pages, html_text, last_post_id, page, stdout, stderr,
                 fetches, status>>

SpecExtract == InitExtract /\ [][ExtractRecords]_vars

(***************************** the cursor extractor ************************)
\* ids = re.findall(r"<article[^>]*\sid=\"([^\"]+)\"", html_text)
article_ids(html) == {i \in 1..Len(html) : html[i].tag = "article" /\ Matches(html[i].id)}

FirstArticleId(html) ==
  LET ids == article_ids(html)
      attrs == {i \in 1..Len(html) : Matches(html[i].dpi)}
      fields == {i \in 1..Len(html) : html[i].tag = "json" /\ Matches(html[i].postId)}
  IN  IF ids # {} THEN html[Min(ids)].id
      ELSE IF attrs # {} THEN html[Min(attrs)].dpi
      ELSE IF fields # {} THEN html[Min(fields)].postId
      ELSE None

\* lines 119-129
extract_post_id_from_html(html) ==
  LET ids == article_ids(html)
      attrs == {i \in 1..Len(html) : Matches(html[i].dpi)}
      fields == {i \in 1..Len(html) : html[i].tag = "json" /\ Matches(html[i].postId)}
  IN  IF ids # {} THEN html[Max(ids)].id
      ELSE IF attrs # {} THEN html[Min(attrs)].dpi
      ELSE IF fields # {} THEN html[Min(fields)].postId
      ELSE None

CursorItems ==
  {ArticleOpen(id, NoAttr) : id \in {NoAttr, "", "p1", "p2"}}
    \cup {ArticleOpen(NoAttr, "p1"), ArticleClose}
    \cup {Div(d) : d \in {"", "p1", "p2"}}
    \cup {PostIdField(v) : v \in {"", "p1", "p2"}}

CursorDocs == SeqsUpTo(CursorItems, MaxTokens)

InitCursor ==
  /\ pc = "cursor"
  /\ html_text \in CursorDocs
  /\ last_post_id = None
  /\ argv = <<>> /\ token = None /\ pages = 0 /\ records = <<>> /\ page = 0
  /\ stdout = <<>> /\ stderr = <<>> /\ fetches = <<>> /\ status = -1

ExtractCursor ==
  /\ pc = "cursor"
  /\ last_post_id' = extract_post_id_from_html(html_text)
  /\ pc' = "cursorDone"
  /\ UNCHANGED <<argv, token, pages, html_text, records, page, stdout, stderr,
                 fetches, status>>

SpecCursor == InitCursor /\ [][ExtractCursor]_vars

(***************************** the pagination driver ***********************)
\* lines 148-157: the lines print_records writes, a line being a text
RECURSIVE print_records(_)
print_records(recs) ==
  IF recs = <<>> THEN <<>>
  ELSE LET title == strip(Head(recs).title)
           description == strip(Head(recs).description)
           rest == print_records(Tail(recs))
       IN  IF title = <<>> /\ description = <<>> THEN rest
           ELSE <<title>> \o (IF description # <<>> THEN <<description>> ELSE <<>>)
                  \o <<<<>>>> \o rest

\* the documents the site answers with
PageDocs ==
  { <<>>,
    <<Div("p1")>>,
    <<ArticleOpen("p1", NoAttr), Elem("h1", <<"a">>), ArticleClose>>,
    <<ArticleOpen("p2", NoAttr), Elem("h1", <<"b">>), Elem("p", <<"a">>), ArticleClose>>,
    <<Plain, Elem("h1", <<"a">>), ArticleClose>>,
    <<ArticleOpen("p2", NoAttr), Elem("h1", <<"&#32;">>), ArticleClose>>,
    <<ArticleOpen("p1", NoAttr), Elem("h1", <<"a">>), ArticleClose,
      ArticleOpen("p2", NoAttr), Elem("h2", <<" ", "a">>), ArticleClose>> }

\* make_request: the body read, or urllib.error.URLError raised
URLError == [ok |-> FALSE, html |-> <<>>]

Responses == {URLError} \cup {[ok |-> TRUE, html |-> d] : d \in PageDocs}

\* one request as the site sees it: which call of run issued it, the postId of
\* its JSON body (None: null, and for the newsfeed page), and the answer
Fetch(site, post_id, resp) ==
  [site |-> site, postId |-> post_id, ok |-> resp.ok, html |-> resp.html]

Msg(m, n) == [msg |-> m, page |-> n]

\* os.environ.get("TME_TOKEN")
Tokens == {None, "", "secret"}

\* sys.argv[1:]: no flag, or --pages n
Argvs == {<<>>} \cup {<<n>> : n \in (-1)..MaxPages}

\* lines 215-223
parse_args(a) == IF a = <<>> THEN DefaultPages ELSE a[1]

Init ==
  /\ pc = "main"
  /\ argv \in Argvs
  /\ token \in Tokens
  /\ pages = 0 /\ html_text = <<>> /\ records = <<>> /\ last_post_id = None
  /\ page = 0 /\ stdout = <<>> /\ stderr = <<>> /\ fetches = <<>> /\ status = -1

\* lines 226-229
Main ==
  /\ pc = "main"
  /\ pages' = (IF parse_args(argv) > 1 THEN parse_args(argv) ELSE 1)
  /\ pc' = "run"
  /\ UNCHANGED <<argv, token, html_text, records, last_post_id, page, stdout, stderr,
                 fetches, status>>

Return(code) == pc' = "done" /\ status' = code

FailStatusZero(m, n) == stderr' = Append(stderr, Msg(m, n)) /\ Return(0)

\* the except urllib.error.URLError clauses, lines 170-172, 180-182, 200-202
Fail(m, n) == stderr' = Append(stderr, Msg(m, n)) /\ Return(1)

\* Python's  not value  of an Optional[str]
falsy(v) == v = None \/ v = ""

Warning == Msg("Warning: could not find a post id for pagination.", 0)

NoCursorFatal == stderr' = Append(stderr, Warning) /\ Return(1)

\* lines 193-194
NoCursor == stderr' = Append(stderr, Warning) /\ Return(0)

\* lines 185-196, once the first page's records are known
FirstPage(html, recs) ==
  /\ html_text' = html
  /\ records' = recs
  /\ stdout' = (IF recs # <<>> THEN stdout \o print_records(recs) ELSE stdout)
  /\ IF pages <= 1
     THEN Return(0) /\ UNCHANGED <<last_post_id, page, stderr>>
     ELSE LET id == extract_post_id_from_html(html)
          IN  /\ last_post_id' = id
              /\ IF falsy(id)
                 THEN NoCursor /\ UNCHANGED page
                 ELSE /\ page' = 2
                      /\ pc' = "loop"
                      /\ UNCHANGED <<stderr, status>>

\* lines 161-176 (and 185-196 when the newsfeed page has records)
Run ==
  /\ pc = "run"
  /\ UNCHANGED <<argv, token, pages>>
  /\ IF falsy(token)
     THEN /\ stderr' = Append(stderr, Msg("TME_TOKEN is not set.", 0))
          /\ Return(2)
          /\ UNCHANGED <<html_text, records, last_post_id, page, stdout, fetches>>
     ELSE \E resp \in Responses :
            /\ fetches' = Append(fetches, Fetch("newsfeed", None, resp))
            /\ IF ~resp.ok
               THEN /\ Fail("Failed to load newsfeed", 0)
                    /\ UNCHANGED <<html_text, records, last_post_id, page, stdout>>
               ELSE LET recs == dedupe_records(find_article_records(resp.html))
                    IN  IF recs = <<>>
                        THEN /\ html_text' = resp.html
                             /\ records' = recs
                             /\ pc' = "fallback"
                             /\ UNCHANGED <<last_post_id, page, stdout, stderr, status>>
                        ELSE FirstPage(resp.html, recs)

\* lines 176-196: the newsfeed page had no records
Fallback ==
  /\ pc = "fallback"
  /\ UNCHANGED <<argv, token, pages>>
  /\ LET fallback_post_id == extract_post_id_from_html(html_text)
     IN  \E resp \in Responses :
           /\ fetches' = Append(fetches, Fetch("fallback", fallback_post_id, resp))
           /\ IF ~resp.ok
              THEN /\ Fail("Failed to load fallback page", 0)
                   /\ UNCHANGED <<html_text, records, last_post_id, page, stdout>>
              ELSE FirstPage(resp.html, dedupe_records(find_article_records(resp.html)))

NeverBreak(page_records) == FALSE

\* line 205:  if not page_records: break
no_page_records(page_records) == page_records = <<>>

KeepCursor(html, old) == old

\* line 209
next_post_id(html, old) == extract_post_id_from_html(html)

\* lines 197-212: one turn of the while loop, up to the next test of its
\* condition; pc = "loop" is held only while that condition is true
Loop ==
  /\ pc = "loop"
  /\ UNCHANGED <<argv, token, pages, records>>
  /\ \E resp \in Responses :
       /\ fetches' = Append(fetches, Fetch("page", last_post_id, resp))
       /\ IF ~resp.ok
          THEN /\ Fail("Failed to load page", page)
               /\ UNCHANGED <<html_text, last_post_id, page, stdout>>
          ELSE LET page_records == dedupe_records(find_article_records(resp.html))
                   id == next_post_id(resp.html, last_post_id)
               IN  /\ html_text' = resp.html
                   /\ IF no_page_records(page_records)
                      THEN /\ Return(0)
                           /\ UNCHANGED <<last_post_id, page, stdout, stderr>>
                      ELSE /\ stdout' = stdout \o print_records(page_records)
                           /\ last_post_id' = id
                           /\ page' = page + 1
                           /\ UNCHANGED stderr
                           /\ IF page + 1 <= pages /\ ~falsy(id)
                              THEN UNCHANGED <<pc, status>>
                              ELSE Return(0)

Next == Main \/ Run \/ Fallback \/ Loop

Spec == Init /\ [][Next]_vars

(***************************** properties **********************************)
Pair(r) == <<r.title, r.description>>

\* C4: every record in the output of extractRecords has a non-empty title or
\* a non-empty description after normalization; a block whose title and
\* description both normalize to the empty text contributes no record.
C4_NonEmptyRecords ==
  pc = "extracted" =>
    \A i \in 1..Len(records) :
      records[i].title # <<>> \/ records[i].description # <<>>

FirstOccurrences(raw) ==
  {i \in 1..Len(raw) : \A j \in 1..(i - 1) : Pair(raw[j]) # Pair(raw[i])}

Nth(F, k) == CHOOSE i \in F : Cardinality({j \in F : j <= i}) = k

\* C5: the output of extractRecords holds no two records with the same
\* (title, description) pair; of several blocks producing the same pair only
\* the first is kept, and the kept records stay in document order.
C5_Dedup ==
  pc = "extracted" =>
    LET raw == extract_records_from_html(html_text)
        F == FirstOccurrences(raw)
    IN  /\ \A i, j \in 1..Len(records) : i # j => Pair(records[i]) # Pair(records[j])
        /\ Len(records) = Cardinality(F)
        /\ \A k \in 1..Len(records) : records[k] = raw[Nth(F, k)]

C5_Witness ==
  /\ pc = "extracted"
  /\ LET raw == extract_records_from_html(html_text)
     IN  /\ Len(raw) = 3
         /\ Pair(raw[1]) = Pair(raw[3])
         /\ Pair(raw[1]) # Pair(raw[2])
         /\ records = <<raw[1], raw[2]>>

\* the document is one article block: a structured-data script, then headings
\* and paragraphs
OneScriptBlock(html) ==
  /\ Len(html) >= 3
  /\ html[1].tag = "article"
  /\ html[2].tag = "script"
  /\ html[Len(html)].tag = "/article"
  /\ \A i \in 3..(Len(html) - 1) : html[i].tag \in {"h1", "h2", "h3", "p"}

\* the same block without its script
WithoutScript(html) == <<html[1]>> \o SubSeq(html, 3, Len(html))

\* headline, else name
TitleLike(p) == IF Truthy(p.headline) THEN p.headline ELSE p.name

\* the text a field yields: unescaped and trimmed
FieldText(v) ==
  IF v.ty = "str" THEN unescape_text(v.s)
  ELSE IF v.ty = "num" /\ v.n # 0 THEN <<ToString(v.n)>>
  ELSE <<>>

NonEmptyText(v) == v.ty = "str" /\ FieldText(v) # <<>>

\* C6: a block whose structured-data script parses to a mapping with a
\* non-empty title-like text (headline, else name) or description text yields
\* the single record of the structured-data fields, whatever its headings and
\* paragraphs say; a block whose script is malformed, is not a mapping or
\* yields only empty fields yields what the markup strategy produces.
C6_StructuredDataPrecedence ==
  (pc = "extracted" /\ OneScriptBlock(html_text)) =>
    LET p == html_text[2].ld
    IN  /\ (p.kind = "object" /\ (NonEmptyText(TitleLike(p)) \/ NonEmptyText(p.description)))
             => records = <<Record(FieldText(TitleLike(p)), FieldText(p.description))>>
        /\ (\/ p.kind # "object"
            \/ FieldText(TitleLike(p)) = <<>> /\ FieldText(p.description) = <<>>)
             => records = extractRecords(WithoutScript(html_text))

C6_Witness ==
  /\ pc = "extracted"
  /\ OneScriptBlock(html_text)
  /\ html_text[2].ld = Dict(JStr(<<"a">>), JStr(<<"b">>), JAbsent)
  /\ html_text[3] = Elem("h1", <<"b">>)
  /\ records = <<Record(<<"a">>, <<>>)>>

\* C7: extractCursor returns the identifier of the last article container
\* that has one; otherwise the first data-post-id value; otherwise the first
\* quoted postId value; otherwise nothing.  It never returns the empty string.
C7_CursorPrecedence ==
  pc = "cursorDone" =>
    LET h == html_text
        arts == {i \in 1..Len(h) : h[i].tag = "article" /\ h[i].id \notin {NoAttr, ""}}
        dpis == {i \in 1..Len(h) : h[i].dpi \notin {NoAttr, ""}}
        pids == {i \in 1..Len(h) : h[i].tag = "json" /\ h[i].postId \notin {NoAttr, ""}}
    IN  /\ arts # {} =>
              \E i \in arts : (\A j \in arts : j <= i) /\ last_post_id = h[i].id
        /\ (arts = {} /\ dpis # {}) =>
              \E i \in dpis : (\A j \in dpis : i <= j) /\ last_post_id = h[i].dpi
        /\ (arts = {} /\ dpis = {} /\ pids # {}) =>
              \E i \in pids : (\A j \in pids : i <= j) /\ last_post_id = h[i].postId
        /\ (arts = {} /\ dpis = {} /\ pids = {}) => last_post_id = None
        /\ last_post_id # ""

C7_Witness ==
  /\ pc = "cursorDone"
  /\ html_text = <<ArticleOpen("p1", NoAttr), ArticleOpen("p2", NoAttr), PostIdField("p1")>>
  /\ last_post_id = "p2"

\* the records and the cursor of a fetched page
Recs(f) == extractRecords(f.html)

Cur(f) == extract_post_id_from_html(f.html)

\* the pages of a run: page 1 is the newsfeed page, or the fallback page when
\* the fallback was taken; pages 2.. are the pages of the loop
PageFetches ==
  IF Len(fetches) >= 2 /\ fetches[2].site = "fallback" THEN Tail(fetches) ELSE fetches

\* the output lines of a list of records
RECURSIVE LinesOf(_)
LinesOf(recs) ==
  IF recs = <<>> THEN <<>>
  ELSE <<Head(recs).title>>
         \o (IF Head(recs).description # <<>> THEN <<Head(recs).description>> ELSE <<>>)
         \o <<<<>>>> \o LinesOf(Tail(recs))

NonBlank(recs) == SelectSeq(recs, LAMBDA r : r.title # <<>> \/ r.description # <<>>)

RECURSIVE EmittedAll(_, _)
EmittedAll(PF, n) ==
  IF n = 0 THEN <<>> ELSE EmittedAll(PF, n - 1) \o LinesOf(Recs(PF[n]))

RECURSIVE EmittedNonBlank(_, _)
EmittedNonBlank(PF, n) ==
  IF n = 0 THEN <<>> ELSE EmittedNonBlank(PF, n - 1) \o LinesOf(NonBlank(Recs(PF[n])))

\* no fetch failed, pages 1..N-1 each have a record and a cursor, page N has
\* no record
ZeroAt(PF, N) ==
  /\ \A k \in 1..Len(PF) : PF[k].ok
  /\ \A k \in 1..(N - 1) : Recs(PF[k]) # <<>> /\ Cur(PF[k]) # None
  /\ Recs(PF[N]) = <<>>

\* C1 as stated: for 1 <= N < P, when no fetch fails, pages before N have a
\* record and a cursor and page N has none, the run emits exactly the records
\* of pages 1..N-1, fetches nothing after page N and ends with status 0.
C1_Termination ==
  \A N \in 1..Len(PageFetches) :
    (pc # "fallback" /\ N < pages /\ ZeroAt(PageFetches, N)) =>
      /\ Len(PageFetches) = N
      /\ pc = "done" /\ status = 0
      /\ stdout = EmittedAll(PageFetches, N - 1)

\* C1 amended: the same for 2 <= N < P, the records emitted being those with
\* a non-empty title or description.
C1_TerminationFromPage2 ==
  \A N \in 2..Len(PageFetches) :
    (pc # "fallback" /\ N < pages /\ ZeroAt(PageFetches, N)) =>
      /\ Len(PageFetches) = N
      /\ pc = "done" /\ status = 0
      /\ stdout = EmittedNonBlank(PageFetches, N - 1)

C1_Witness ==
  /\ pc = "done" /\ status = 0
  /\ Len(PageFetches) = 3 /\ pages > 3
  /\ ZeroAt(PageFetches, 3)
  /\ fetches[1].site = "newsfeed" /\ fetches[2].site = "fallback"
  /\ Len(stdout) >= 5

\* C2: a failed fetch ends the run with status 1; it is the last fetch of the
\* run (a failed newsfeed fetch is followed by no fallback fetch); the step
\* that fails prints no record and nothing is fetched or printed afterwards,
\* so what earlier pages printed stays.
C2_TransportFailure ==
  /\ [](\A i \in 1..Len(fetches) :
          ~fetches[i].ok => (i = Len(fetches) /\ pc = "done" /\ status = 1))
  /\ [][/\ (Len(fetches') > Len(fetches) /\ ~fetches'[Len(fetches')].ok)
             => (stdout' = stdout /\ status' = 1 /\ pc' = "done")
        /\ (\E i \in 1..Len(fetches) : ~fetches[i].ok)
             => (fetches' = fetches /\ stdout' = stdout /\ status' = 1)]_vars

C2_Witness ==
  /\ Len(fetches) = 3
  /\ fetches[1].ok /\ fetches[2].ok /\ ~fetches[3].ok
  /\ fetches[3].site = "page"
  /\ Len(stdout) >= 4
  /\ pc = "done" /\ status = 1

\* C3: a run issues at most P fetches in total, P being the requested page
\* count clamped to at least 1.
C3_TotalPagesBound == pc # "main" => Len(fetches) <= pages

\* C8 as stated: with more than one page requested, when the latest page
\* yields no cursor (after page 1 or a later page) the run fetches nothing
\* more, writes the cursor-not-found warning and ends with status 0.
C8_MissingCursor ==
  LET PF == PageFetches
      n == Len(PF)
  IN  /\ \A i \in 1..(n - 1) : Cur(PF[i]) # None
      /\ (pages > 1 /\ pc # "fallback" /\ n >= 1 /\ PF[n].ok /\ Cur(PF[n]) = None
            /\ (n = 1 \/ Recs(PF[n]) # <<>>))
           => (pc = "done" /\ status = 0
                 /\ \E k \in 1..Len(stderr) : stderr[k] = Warning)

\* C8 amended: the run fetches nothing more and ends with status 0; the
\* warning is written when the cursor is missing after page 1 and is not
\* written when it is missing after a later page.
C8_MissingCursorWarnsAfterPage1 ==
  LET PF == PageFetches
      n == Len(PF)
  IN  /\ \A i \in 1..(n - 1) : Cur(PF[i]) # None
      /\ (pages > 1 /\ pc # "fallback" /\ n >= 1 /\ PF[n].ok /\ Cur(PF[n]) = None)
           => (pc = "done" /\ status = 0
                 /\ ((\E k \in 1..Len(stderr) : stderr[k] = Warning) <=> n = 1))

C8_Witness ==
  /\ pc = "done" /\ status = 0 /\ pages > 2
  /\ Len(fetches) = 2 /\ fetches[2].site = "page"
  /\ fetches[2].ok /\ Cur(fetches[2]) = None /\ Recs(fetches[2]) # <<>>
  /\ stderr = <<>>

FallbackAt == {i \in 1..Len(fetches) : fetches[i].site = "fallback"}

\* C9: the fallback fetch is issued if and only if the newsfeed fetch
\* succeeded and its page yields zero records; at most once; with the cursor
\* extracted from the newsfeed page (null when there is none); and the records
\* emitted for page 1 are those extracted from the fallback page.
C9_FallbackTrigger ==
  /\ pc \in {"loop", "done"} =>
       (FallbackAt # {} <=>
          (Len(fetches) >= 1 /\ fetches[1].ok /\ Recs(fetches[1]) = <<>>))
  /\ FallbackAt \subseteq {2}
  /\ \A i \in FallbackAt :
       /\ fetches[i].postId = Cur(fetches[1])
       /\ fetches[i].ok =>
            LET L == LinesOf(Recs(fetches[i]))
            IN  /\ Len(stdout) >= Len(L)
                /\ SubSeq(stdout, 1, Len(L)) = L
                /\ Len(fetches) = 2 => stdout = L

\* C9 but for the records that print_records skips
C9_FallbackTriggerNonBlank ==
  /\ pc \in {"loop", "done"} =>
       (FallbackAt # {} <=>
          (Len(fetches) >= 1 /\ fetches[1].ok /\ Recs(fetches[1]) = <<>>))
  /\ FallbackAt \subseteq {2}
  /\ \A i \in FallbackAt :
       /\ fetches[i].postId = Cur(fetches[1])
       /\ fetches[i].ok =>
            LET L == LinesOf(NonBlank(Recs(fetches[i])))
            IN  /\ Len(stdout) >= Len(L)
                /\ SubSeq(stdout, 1, Len(L)) = L
                /\ Len(fetches) = 2 => stdout = L

\* C10: every fetch of the paging loop carries a non-empty cursor, the one
\* extracted from the page fetched immediately before it.
C10_CursorThreading ==
  \A i \in 1..Len(fetches) :
    fetches[i].site = "page" =>
      /\ i >= 2
      /\ fetches[i - 1].ok
      /\ fetches[i].postId = Cur(fetches[i - 1])
      /\ fetches[i].postId # None /\ fetches[i].postId # ""

C10_Witness ==
  /\ Len(fetches) = 4
  /\ fetches[2].site = "fallback"
  /\ fetches[3].site = "page" /\ fetches[3].postId = "p1"
  /\ fetches[4].site = "page" /\ fetches[4].postId = "p2"

====
